---- MODULE Spec2Model ----
(***************************************************************************)
(* Request orchestration of the research backend (src/src/server.ts) and   *)
(* its authentication middleware (src/src/routes/auth.ts, lines 56-95).    *)
(*                                                                         *)
(* A request is a record that walks through its handler.  The suspension   *)
(* points of a handler are its outbound calls: the identity service, the   *)
(* search API, the completion API and the record store.  Every action is   *)
(* the code that runs between two suspension points.                       *)
(*                                                                         *)
(* Strings that the code inspects piecewise (the Authorization header, the *)
(* comma separated tag text) are sequences of atoms; every other text is   *)
(* a TLA+ string.  A JSON body is a record whose DOMAIN is its key set.    *)
(***************************************************************************)
EXTENDS Integers, Sequences, FiniteSets, TLC

VARIABLES reqs, store

vars == <<reqs, store>>

(***************************************************************************)
(* Bounds of the model.                                                    *)
(***************************************************************************)
MaxPapers == 2

\* Request slots; each slot serves one request.
Reqs == {1}

(***************************************************************************)
(* Program constants: max_results of the two search call sites.            *)
(***************************************************************************)
MaxResultsSearch == 6

MaxResultsReport == 5

Min(a, b) == IF a < b THEN a ELSE b

(***************************************************************************)
(* Input domains.                                                          *)
(***************************************************************************)
Absent == "<absent>"

Routes == {"search-papers", "generate-report", "analyze-paper", "suggest-prompt", "save-search"}

\* Authorization header values: <<>> is an absent (or empty) header.
Headers ==
  { <<>>,
    <<"Bearer", " ", "a">>,
    <<"a">>,
    <<"Basic", " ", "a">>,
    <<"Bearer", " ", "b">>,
    <<"Bearer", " ", "a", " ", "x">> }

\* Body field values: absent, empty string, a non-empty string.
FieldVals == {Absent, "", "q"}

Texts == {"t1", "t2"}

StatusTexts == {"Bad Gateway", "Too Many Requests"}

PaperIds == 1..MaxPapers

RECURSIVE InjSeqs(_, _)
InjSeqs(S, n) ==
  IF n = 0 THEN {<<>>}
  ELSE {<<>>} \cup UNION {{<<p>> \o s : s \in InjSeqs(S \ {p}, n - 1)} : p \in S}

\* The paper lists a search of at most max results can return.
PaperLists(max) == InjSeqs(PaperIds, Min(MaxPapers, max))

(***************************************************************************)
(* The identity service: tokens it knows and the users they belong to.     *)
(***************************************************************************)
ValidTokens == {<<"a">>}

Users == {[id |-> "u1"], [id |-> ""]}

NoUser == [none |-> TRUE]

NoToken == <<"<none>">>

NoRecord == [none |-> TRUE]

NoSlot == [none |-> TRUE]

JsonNull == [null |-> TRUE]

NoOutcome == [kind |-> "none"]

\* message of an Error thrown by a failed outbound call
ThrownMessage == "network failure"

(***************************************************************************)
(* JavaScript truthiness of a body field or text.                          *)
(***************************************************************************)
Truthy(v) == v \notin {Absent, ""}

(***************************************************************************)
(* String operations on the Authorization header.                          *)
(***************************************************************************)
\* authHeader?.startsWith('Bearer ')
StartsWithBearer(h) == Len(h) >= 2 /\ h[1] = "Bearer" /\ h[2] = " "

Has(s, sep) == \E i \in 1..Len(s) : s[i] = sep

First(s, sep) == CHOOSE i \in 1..Len(s) : s[i] = sep /\ \A j \in 1..(i - 1) : s[j] # sep

\* s.split(sep)
RECURSIVE SplitOn(_, _)
SplitOn(s, sep) ==
  IF ~Has(s, sep) THEN <<s>>
  ELSE <<SubSeq(s, 1, First(s, sep) - 1)>> \o SplitOn(SubSeq(s, First(s, sep) + 1, Len(s)), sep)

\* s.trim()
RECURSIVE Trim(_)
Trim(s) ==
  IF s = <<>> THEN s
  ELSE IF s[1] = " " THEN Trim(Tail(s))
  ELSE IF s[Len(s)] = " " THEN Trim(SubSeq(s, 1, Len(s) - 1))
  ELSE s

\* authHeader.split(' ')[1]
SplitToken(h) == SplitOn(h, " ")[2]

HasBearerAt(h, i) == i + 1 <= Len(h) /\ h[i] = "Bearer" /\ h[i + 1] = " "

\* authHeader.replace('Bearer ', ''): removes the first occurrence only.
ReplaceBearer(h) ==
  IF \E i \in 1..Len(h) : HasBearerAt(h, i)
  THEN LET i == CHOOSE k \in 1..Len(h) : HasBearerAt(h, k) /\ \A j \in 1..(k - 1) : ~HasBearerAt(h, j)
       IN SubSeq(h, 1, i - 1) \o SubSeq(h, i + 2, Len(h))
  ELSE h

(***************************************************************************)
(* Responses.                                                              *)
(***************************************************************************)
JsonResponse(status, body) == [status |-> status, ctype |-> "json", body |-> body]

\* res.status(s).json(body); res.json(body) is status 200
Respond(q, status, body) ==
  [q EXCEPT !.pc = "done", !.resp = Append(@, JsonResponse(status, body))]

\* next(error) with no error middleware registered: the framework's final
\* handler answers with status 500 and an HTML page.
ForwardError(q, msg) ==
  [q EXCEPT !.pc = "done",
            !.resp = Append(@, [status |-> 500, ctype |-> "html", body |-> [html |-> msg]])]

(***************************************************************************)
(* A request slot after construction of the server: no request yet.        *)
(*   calls    the per-paper enrichment calls, one per paper, in map order, *)
(*            each with its outcome once it has settled                    *)
(*   results  the array Promise.all resolves with; src and kind record for *)
(*            each value the paper its callback was invoked with and the   *)
(*            outcome of its call                                          *)
(*   order    the indices of the enrichment calls in the order in which    *)
(*            they settled                                                 *)
(*   out*     the outcome of each outbound call that has answered; outSynth *)
(*            is the synthesis call of search-papers and generate-report   *)
(*            and the main completion call of the other routes             *)
(*   row      the row an insert call that succeeded returned               *)
(*   resp     the responses sent so far                                    *)
(***************************************************************************)
IdleRequest ==
  [pc |-> "idle", route |-> Absent, header |-> <<>>, body |-> [none |-> TRUE],
   idToken |-> NoToken, user |-> NoUser,
   nIdentity |-> 0, nSearch |-> 0, nCompletion |-> 0, nSynth |-> 0, nInsert |-> 0,
   outIdentity |-> NoOutcome, outSearch |-> NoOutcome, outSynth |-> NoOutcome,
   outTag |-> NoOutcome, outInsert |-> NoOutcome,
   papers |-> <<>>, calls |-> <<>>, results |-> <<>>, order |-> <<>>,
   finalReport |-> Absent, insertArg |-> NoRecord, row |-> NoRecord,
   suggestions |-> JsonNull,
   resp |-> <<>>]

Init ==
  /\ reqs = [r \in Reqs |-> IdleRequest]
  /\ store = <<>>

(***************************************************************************)
(* Outcomes of the outbound calls.                                         *)
(***************************************************************************)
\* supabase.auth.getUser(token)
IdentityOutcomes(token) ==
  {[kind |-> "throw"]}
    \cup (IF token \in ValidTokens
          THEN {[kind |-> "user", user |-> u] : u \in Users}
          ELSE {[kind |-> "error"]})

\* fetch of the search API followed by text() and the parse of the entries
SearchOutcomes(max) ==
  {[kind |-> "throw"]}
    \cup {[kind |-> "notok", statusText |-> st] : st \in StatusTexts}
    \cup {[kind |-> "ok", papers |-> ps] : ps \in PaperLists(max)}

\* fetch of the completion API followed by the read of its body; content is
\* choices[0]?.message?.content, Absent when it is missing
CompletionOutcomes(contents) ==
  {[kind |-> "throw"], [kind |-> "notok"], [kind |-> "nochoices"]}
    \cup {[kind |-> "ok", content |-> c] : c \in contents}

TextContents == {Absent} \cup Texts

\* contents of a per-paper call
EnrichContents == {Absent, "t1"}

\* supabase.from('reports').insert(...).select().single()
InsertOutcomes ==
  {[kind |-> "throw"], [kind |-> "nodata"], [kind |-> "ok"],
   [kind |-> "error", message |-> "duplicate key"]}

\* the row the store returns for an inserted record
Row(rec, id) == [k \in DOMAIN rec \cup {"id"} |-> IF k = "id" THEN id ELSE rec[k]]

(***************************************************************************)
(* Per-paper enrichment (the callbacks of the two Promise.all batches).    *)
(***************************************************************************)
\* variant: one placeholder for every kind of failure
SummaryValue_singlePlaceholder(o) ==
  CASE o.kind \in {"notok", "nochoices", "throw"} -> "Summary generation failed"
    [] o.kind = "ok" -> IF Truthy(o.content) THEN o.content ELSE "Summary not available"

\* return value of the summary callback of search-papers
SummaryValue(o) ==
  CASE o.kind = "notok" -> "Summary failed due to API error"
    [] o.kind = "nochoices" -> "Summary failed: No valid response"
    [] o.kind = "throw" -> "Summary generation failed"
    [] o.kind = "ok" -> IF Truthy(o.content) THEN o.content ELSE "Summary not available"

\* analysis text of the analysis callback of generate-report
AnalysisValue(o) ==
  CASE o.kind = "notok" -> "Analysis failed due to API error"
    [] o.kind = "nochoices" -> "Analysis failed: No valid response from AI"
    [] o.kind = "throw" -> "Analysis failed due to server error"
    [] o.kind = "ok" -> IF Truthy(o.content) THEN o.content ELSE "Analysis failed"

\* return value of the callback invoked with paper p
EnrichValue(route, p, o) ==
  IF route = "search-papers" THEN SummaryValue(o)
  ELSE [paper |-> p, analysis |-> AnalysisValue(o)]

\* variant: the values are collected in the order in which the calls settle
SlotFor_completionOrder(i, nSettled) == nSettled + 1

\* Promise.all puts the value of the i-th promise at index i, whatever the
\* number of promises settled before it
SlotFor(i, nSettled) == i

NumSettled(q) == Cardinality({i \in 1..Len(q.calls) : q.calls[i].st = "settled"})

AllSettled(q) == \A i \in 1..Len(q.calls) : q.calls[i].st = "settled"

\* variant: the callbacks run one after the other, only the first call is issued
IssueEnrichment_sequential(q, ps) ==
  [q EXCEPT !.pc = "enrichWait",
            !.papers = ps,
            !.calls = [i \in 1..Len(ps) |->
                         [paper |-> ps[i], st |-> IF i = 1 THEN "inflight" ELSE "waiting",
                          out |-> NoOutcome]],
            !.results = [i \in 1..Len(ps) |-> NoSlot],
            !.nCompletion = @ + Min(1, Len(ps))]

\* papers.map(async paper => ...): every callback runs up to its fetch
IssueEnrichment(q, ps) ==
  [q EXCEPT !.pc = "enrichWait",
            !.papers = ps,
            !.calls = [i \in 1..Len(ps) |-> [paper |-> ps[i], st |-> "inflight", out |-> NoOutcome]],
            !.results = [i \in 1..Len(ps) |-> NoSlot],
            !.nCompletion = @ + Len(ps)]

(***************************************************************************)
(* Authentication middlewares.                                             *)
(***************************************************************************)
CallIdentity(q, token) ==
  [q EXCEPT !.pc = "authWait", !.idToken = token, !.nIdentity = @ + 1]

\* authenticateToken up to its await
AuthenticateToken(q) ==
  IF ~StartsWithBearer(q.header)
  THEN Respond(q, 401, [error |-> "No token provided"])
  ELSE CallIdentity(q, SplitToken(q.header))

\* authenticateUser up to its await
AuthenticateUser(q) ==
  IF q.header = <<>>
  THEN Respond(q, 401, [error |-> "No authorization header"])
  ELSE CallIdentity(q, ReplaceBearer(q.header))

Middleware(q) ==
  IF q.route = "suggest-prompt" THEN AuthenticateUser(q) ELSE AuthenticateToken(q)

(***************************************************************************)
(* The route handlers up to their first await.                             *)
(***************************************************************************)
CallSearch(q) == [q EXCEPT !.pc = "searchWait", !.nSearch = @ + 1]

CallCompletion(q, pc) == [q EXCEPT !.pc = pc, !.nCompletion = @ + 1]

CallInsert(q, pc, rec) == [q EXCEPT !.pc = pc, !.nInsert = @ + 1, !.insertArg = rec]

HasUserId(q) == q.user # NoUser /\ Truthy(q.user.id)

StartSearchPapers(q) ==
  IF ~Truthy(q.body.query)
  THEN Respond(q, 400, [error |-> "Query is required"])
  ELSE CallSearch(q)

\* variant: the query is not validated
StartGenerateReport_noValidation(q) == CallSearch(q)

StartGenerateReport(q) ==
  IF ~Truthy(q.body.query)
  THEN Respond(q, 400, [error |-> "Query is required"])
  ELSE CallSearch(q)

StartSuggestPrompt(q) == CallCompletion(q, "suggestWait")

StartAnalyzePaper(q) ==
  IF ~Truthy(q.body.abstract)
  THEN Respond(q, 400, [error |-> "Abstract is required"])
  ELSE CallCompletion(q, "analyzeWait")

StartSaveSearch(q) ==
  IF ~HasUserId(q)
  THEN Respond(q, 500, [error |-> "No authenticated user found"])
  ELSE CallInsert(q, "saveWait",
                  [user_id |-> q.user.id, title |-> q.body.query,
                   content |-> q.body.consolidatedSummary, papers |-> q.body.papers,
                   type |-> "search", created_at |-> "now"])

StartHandler(q) ==
  CASE q.route = "search-papers" -> StartSearchPapers(q)
    [] q.route = "generate-report" -> StartGenerateReport(q)
    [] q.route = "suggest-prompt" -> StartSuggestPrompt(q)
    [] q.route = "analyze-paper" -> StartAnalyzePaper(q)
    [] q.route = "save-search" -> StartSaveSearch(q)

Bodies(route) ==
  CASE route \in {"search-papers", "generate-report"} -> {[query |-> v] : v \in FieldVals}
    [] route = "analyze-paper" -> {[abstract |-> v] : v \in FieldVals}
    [] route = "suggest-prompt" -> {[initialQuery |-> v] : v \in FieldVals}
    [] route = "save-search" ->
         {[query |-> v, consolidatedSummary |-> w, papers |-> <<>>] :
            v \in FieldVals, w \in {Absent, "s"}}

(***************************************************************************)
(* Actions.                                                                *)
(***************************************************************************)
Update(r, q) == reqs' = [reqs EXCEPT ![r] = q]

\* a request arrives and its authentication middleware runs
Receive(r) ==
  /\ reqs[r].pc = "idle"
  /\ \E route \in Routes, h \in Headers :
       \E b \in Bodies(route) :
         Update(r, Middleware([reqs[r] EXCEPT !.route = route, !.header = h, !.body = b]))
  /\ UNCHANGED store

\* the middleware after its await: next() runs the route handler
AfterIdentity(q, o) ==
  CASE o.kind = "throw" -> Respond(q, 401, [error |-> "Authentication failed"])
    [] o.kind = "error" -> Respond(q, 401, [error |-> "Invalid token"])
    [] o.kind = "user" -> StartHandler([q EXCEPT !.user = o.user])

\* the identity service answers
IdentityReturn(r) ==
  /\ reqs[r].pc = "authWait"
  /\ \E o \in IdentityOutcomes(reqs[r].idToken) :
       Update(r, AfterIdentity([reqs[r] EXCEPT !.outIdentity = o], o))
  /\ UNCHANGED store

\* variant: an empty search result is enriched and synthesised like any other
SearchReturnSearchPapers_noShortCircuit(q, o) ==
  CASE o.kind = "throw" -> Respond(q, 500, [error |-> ThrownMessage])
    [] o.kind = "notok" ->
         Respond(q, 500, [error |-> CASE o.statusText = "Bad Gateway" -> "ArXiv API error: Bad Gateway"
                                      [] o.statusText = "Too Many Requests" -> "ArXiv API error: Too Many Requests"])
    [] o.kind = "ok" -> IssueEnrichment(q, o.papers)

\* the search API answers
SearchReturnSearchPapers(q, o) ==
  CASE o.kind = "throw" -> Respond(q, 500, [error |-> ThrownMessage])
    [] o.kind = "notok" ->
         Respond(q, 500, [error |-> CASE o.statusText = "Bad Gateway" -> "ArXiv API error: Bad Gateway"
                                      [] o.statusText = "Too Many Requests" -> "ArXiv API error: Too Many Requests"])
    [] o.kind = "ok" ->
         IF Len(o.papers) = 0
         THEN Respond(q, 200, [papers |-> <<>>, summaries |-> <<>>, consolidatedSummary |-> ""])
         ELSE IssueEnrichment(q, o.papers)

SearchReturnGenerateReport(q, o) ==
  CASE o.kind \in {"throw", "notok"} -> Respond(q, 500, [error |-> "Failed to fetch papers from arXiv"])
    [] o.kind = "ok" -> IssueEnrichment(q, o.papers)

\* variant: the paper list is kept outside the handler, so the list a search
\* returns replaces the list of every request whose batch is in flight
SearchReturn_sharedPapers(r) ==
  /\ reqs[r].pc = "searchWait"
  /\ \E o \in SearchOutcomes(IF reqs[r].route = "search-papers"
                              THEN MaxResultsSearch ELSE MaxResultsReport) :
       LET q == [reqs[r] EXCEPT !.outSearch = o]
           mine == IF q.route = "search-papers"
                   THEN SearchReturnSearchPapers(q, o) ELSE SearchReturnGenerateReport(q, o)
       IN reqs' = [s \in DOMAIN reqs |->
                     IF s = r THEN mine
                     ELSE IF o.kind = "ok" /\ reqs[s].pc \in {"enrichWait", "synthWait"}
                     THEN [reqs[s] EXCEPT !.papers = o.papers]
                     ELSE reqs[s]]
  /\ UNCHANGED store

SearchReturn(r) ==
  /\ reqs[r].pc = "searchWait"
  /\ \/ /\ reqs[r].route = "search-papers"
        /\ \E o \in SearchOutcomes(MaxResultsSearch) : Update(r, SearchReturnSearchPapers([reqs[r] EXCEPT !.outSearch = o], o))
     \/ /\ reqs[r].route = "generate-report"
        /\ \E o \in SearchOutcomes(MaxResultsReport) : Update(r, SearchReturnGenerateReport([reqs[r] EXCEPT !.outSearch = o], o))
  /\ UNCHANGED store

\* variant: the callback of a thrown call never returns, its promise stays pending
SettleEnrichment_pending(q, i, o) ==
  IF o.kind = "throw"
  THEN [q EXCEPT !.calls[i].st = "pending", !.calls[i].out = o]
  ELSE [q EXCEPT !.calls[i].st = "settled",
                 !.calls[i].out = o,
                 !.order = Append(@, i),
                 !.results[SlotFor(i, NumSettled(q))] =
                    [src |-> q.calls[i].paper, kind |-> o.kind,
                     val |-> EnrichValue(q.route, q.calls[i].paper, o)]]

\* variant: a thrown call is not caught and rejects the whole batch
SettleEnrichment_rejecting(q, i, o) ==
  IF o.kind = "throw"
  THEN Respond(q, 500, [error |-> ThrownMessage])
  ELSE [q EXCEPT !.calls[i].st = "settled",
                 !.calls[i].out = o,
                 !.order = Append(@, i),
                 !.results[SlotFor(i, NumSettled(q))] =
                    [src |-> q.calls[i].paper, kind |-> o.kind,
                     val |-> EnrichValue(q.route, q.calls[i].paper, o)]]

\* variant: a thrown call is issued again
SettleEnrichment_retrying(q, i, o) ==
  IF o.kind = "throw"
  THEN [q EXCEPT !.nCompletion = @ + 1]
  ELSE [q EXCEPT !.calls[i].st = "settled",
                 !.calls[i].out = o,
                 !.order = Append(@, i),
                 !.results[SlotFor(i, NumSettled(q))] =
                    [src |-> q.calls[i].paper, kind |-> o.kind,
                     val |-> EnrichValue(q.route, q.calls[i].paper, o)]]

\* the enrichment call of paper i settles and its callback returns
SettleEnrichment(q, i, o) ==
  [q EXCEPT !.calls[i].st = "settled",
            !.calls[i].out = o,
            !.order = Append(@, i),
            !.results[SlotFor(i, NumSettled(q))] =
               [src |-> q.calls[i].paper, kind |-> o.kind,
                val |-> EnrichValue(q.route, q.calls[i].paper, o)]]

EnrichReturn(r) ==
  /\ reqs[r].pc = "enrichWait"
  /\ \E i \in 1..Len(reqs[r].calls) :
       /\ reqs[r].calls[i].st = "inflight"
       /\ \E o \in CompletionOutcomes(EnrichContents) : Update(r, SettleEnrichment(reqs[r], i, o))
  /\ UNCHANGED store

\* variant: the handler does not wait for the batch
Join_early(r) ==
  /\ reqs[r].pc = "enrichWait"
  /\ Update(r, [CallCompletion(reqs[r], "synthWait") EXCEPT !.nSynth = @ + 1])
  /\ UNCHANGED store

\* Promise.all resolves and the handler issues its synthesis call
Join(r) ==
  /\ reqs[r].pc = "enrichWait"
  /\ AllSettled(reqs[r])
  /\ Update(r, [CallCompletion(reqs[r], "synthWait") EXCEPT !.nSynth = @ + 1])
  /\ UNCHANGED store

Summaries(q) == [i \in 1..Len(q.results) |-> q.results[i].val]

PaperAnalyses(q) == [i \in 1..Len(q.results) |-> q.results[i].val]

\* variant: a body without choices falls back to the default overview
SynthReturnSearchPapers_lenient(q, o) ==
  CASE o.kind = "throw" -> Respond(q, 500, [error |-> ThrownMessage])
    [] o.kind = "notok" -> Respond(q, 500, [error |-> "Failed to generate consolidated summary"])
    [] o.kind \in {"nochoices", "ok"} ->
         Respond(q, 200, [papers |-> q.papers, summaries |-> Summaries(q),
                          consolidatedSummary |->
                            IF o.kind = "ok" /\ Truthy(o.content)
                            THEN o.content ELSE "Overview not available"])

\* variant: search-papers saves the search it has answered for
SynthReturnSearchPapers_saving(q, o) ==
  CASE o.kind = "throw" -> Respond(q, 500, [error |-> ThrownMessage])
    [] o.kind = "notok" -> Respond(q, 500, [error |-> "Failed to generate consolidated summary"])
    [] o.kind = "nochoices" -> Respond(q, 500, [error |-> "Invalid consolidated summary response"])
    [] o.kind = "ok" ->
         CallInsert(q, "saveWait",
                    [user_id |-> q.user.id, title |-> q.body.query,
                     content |-> IF Truthy(o.content) THEN o.content ELSE "Overview not available",
                     papers |-> q.papers, type |-> "search", created_at |-> "now"])

\* the consolidated-overview call of search-papers answers
SynthReturnSearchPapers(q, o) ==
  CASE o.kind = "throw" -> Respond(q, 500, [error |-> ThrownMessage])
    [] o.kind = "notok" -> Respond(q, 500, [error |-> "Failed to generate consolidated summary"])
    [] o.kind = "nochoices" -> Respond(q, 500, [error |-> "Invalid consolidated summary response"])
    [] o.kind = "ok" ->
         Respond(q, 200, [papers |-> q.papers, summaries |-> Summaries(q),
                          consolidatedSummary |->
                            IF Truthy(o.content) THEN o.content ELSE "Overview not available"])

\* variant: the query is stored as the content
ReportRecord_queryAsContent(q, finalReport) ==
  [user_id |-> q.user.id, title |-> q.body.query, content |-> q.body.query]

\* the record generate-report inserts
ReportRecord(q, finalReport) ==
  [user_id |-> q.user.id, title |-> q.body.query, content |-> finalReport]

\* variant: the report text is not tested before it is saved
SynthReturnGenerateReport_noContentCheck(q, o) ==
  IF o.kind \in {"throw", "notok", "nochoices"}
  THEN Respond(q, 500, [error |-> "Failed to generate report content"])
  ELSE IF ~HasUserId(q)
  THEN Respond([q EXCEPT !.finalReport = o.content], 500, [error |-> "No authenticated user found"])
  ELSE CallInsert([q EXCEPT !.finalReport = o.content], "persistWait", ReportRecord(q, o.content))

\* the report call of generate-report answers
SynthReturnGenerateReport(q, o) ==
  IF o.kind \in {"throw", "notok", "nochoices"} \/ ~Truthy(o.content)
  THEN Respond(q, 500, [error |-> "Failed to generate report content"])
  ELSE IF ~HasUserId(q)
  THEN Respond([q EXCEPT !.finalReport = o.content], 500, [error |-> "No authenticated user found"])
  ELSE CallInsert([q EXCEPT !.finalReport = o.content], "persistWait", ReportRecord(q, o.content))

SynthReturn(r) ==
  /\ reqs[r].pc = "synthWait"
  /\ \E o \in CompletionOutcomes(TextContents \cup {""}) :
       Update(r, IF reqs[r].route = "search-papers"
                 THEN SynthReturnSearchPapers([reqs[r] EXCEPT !.outSynth = o], o)
                 ELSE SynthReturnGenerateReport([reqs[r] EXCEPT !.outSynth = o], o))
  /\ UNCHANGED store

\* what an insert call leaves in the store: a thrown call may or may not
\* have reached it
StoreAfter(st, rec, kind) ==
  CASE kind = "ok" -> {Append(st, Row(rec, Len(st) + 1))}
    [] kind = "throw" -> {st, Append(st, Row(rec, Len(st) + 1))}
    [] kind \in {"error", "nodata"} -> {st}

\* the request with the outcome of its insert call recorded
InsertAnswered(q, o, row) ==
  [q EXCEPT !.outInsert = o, !.row = IF o.kind = "ok" THEN row ELSE NoRecord]

\* variant: the save catch answers and rethrows, the generation catch answers again
PersistReturnGenerateReport_rethrow(q, o, row) ==
  CASE o.kind = "throw" ->
         Respond(Respond(q, 500, [error |-> ThrownMessage]),
                 500, [error |-> "Failed to generate report content"])
    [] o.kind = "error" ->
         Respond(Respond(q, 500, [error |-> "Failed to save report: duplicate key"]),
                 500, [error |-> "Failed to generate report content"])
    [] o.kind = "nodata" ->
         Respond(Respond(q, 500, [error |-> "No report record returned after save"]),
                 500, [error |-> "Failed to generate report content"])
    [] o.kind = "ok" ->
         Respond(q, 200, [report |-> q.finalReport, papers |-> PaperAnalyses(q), savedReport |-> row])

\* variant: no inner try/catch, a failed save reaches the generation catch
PersistReturnGenerateReport_outerCatch(q, o, row) ==
  CASE o.kind \in {"throw", "error", "nodata"} ->
         Respond(q, 500, [error |-> "Failed to generate report content"])
    [] o.kind = "ok" ->
         Respond(q, 200, [report |-> q.finalReport, papers |-> PaperAnalyses(q), savedReport |-> row])

\* the insert of generate-report answers
PersistReturnGenerateReport(q, o, row) ==
  CASE o.kind = "throw" -> Respond(q, 500, [error |-> ThrownMessage])
    [] o.kind = "error" -> Respond(q, 500, [error |-> "Failed to save report: duplicate key"])
    [] o.kind = "nodata" -> Respond(q, 500, [error |-> "No report record returned after save"])
    [] o.kind = "ok" ->
         Respond(q, 200, [report |-> q.finalReport, papers |-> PaperAnalyses(q), savedReport |-> row])

PersistReturn(r) ==
  /\ reqs[r].pc = "persistWait"
  /\ \E o \in InsertOutcomes :
       /\ Update(r, LET row == Row(reqs[r].insertArg, Len(store) + 1)
                    IN PersistReturnGenerateReport(InsertAnswered(reqs[r], o, row), o, row))
       /\ store' \in StoreAfter(store, reqs[r].insertArg, o.kind)

\* the insert of save-search answers
SaveReturnSaveSearch(q, o, row) ==
  CASE o.kind = "throw" -> Respond(q, 500, [error |-> ThrownMessage])
    [] o.kind = "error" -> Respond(q, 500, [error |-> "Failed to save search: duplicate key"])
    [] o.kind = "nodata" ->
         Respond(q, 200, [savedSearch |-> JsonNull, message |-> "Search saved successfully"])
    [] o.kind = "ok" ->
         Respond(q, 200, [savedSearch |-> row, message |-> "Search saved successfully"])

SaveReturn(r) ==
  /\ reqs[r].pc = "saveWait"
  /\ \E o \in InsertOutcomes :
       /\ Update(r, LET row == Row(reqs[r].insertArg, Len(store) + 1)
                    IN SaveReturnSaveSearch(InsertAnswered(reqs[r], o, row), o, row))
       /\ store' \in StoreAfter(store, reqs[r].insertArg, o.kind)

\* variant: the first-choice text is not tested
AnalyzeReturnAnalyzePaper_noContentCheck(q, o) ==
  CASE o.kind = "throw" -> Respond(q, 500, [error |-> ThrownMessage])
    [] o.kind = "notok" ->
         Respond(q, 500, [error |-> "Failed to generate AI summary: 502 - upstream error"])
    [] o.kind = "nochoices" ->
         Respond(q, 500, [error |-> "Invalid analysis response: No valid choices in response"])
    [] o.kind = "ok" -> Respond(q, 200, [summary |-> o.content])

\* variant: a body without choices yields an empty summary
AnalyzeReturnAnalyzePaper_emptySummary(q, o) ==
  CASE o.kind = "throw" -> Respond(q, 500, [error |-> ThrownMessage])
    [] o.kind = "notok" ->
         Respond(q, 500, [error |-> "Failed to generate AI summary: 502 - upstream error"])
    [] o.kind = "nochoices" -> Respond(q, 200, [summary |-> ""])
    [] o.kind = "ok" ->
         IF ~Truthy(o.content)
         THEN Respond(q, 500, [error |-> "No summary content generated"])
         ELSE Respond(q, 200, [summary |-> o.content])

\* the completion call of analyze-paper answers
AnalyzeReturnAnalyzePaper(q, o) ==
  CASE o.kind = "throw" -> Respond(q, 500, [error |-> ThrownMessage])
    [] o.kind = "notok" ->
         Respond(q, 500, [error |-> "Failed to generate AI summary: 502 - upstream error"])
    [] o.kind = "nochoices" ->
         Respond(q, 500, [error |-> "Invalid analysis response: No valid choices in response"])
    [] o.kind = "ok" ->
         IF ~Truthy(o.content)
         THEN Respond(q, 500, [error |-> "No summary content generated"])
         ELSE Respond(q, 200, [summary |-> o.content])

AnalyzeReturn(r) ==
  /\ reqs[r].pc = "analyzeWait"
  /\ \E o \in CompletionOutcomes(TextContents) : Update(r, AnalyzeReturnAnalyzePaper([reqs[r] EXCEPT !.outSynth = o], o))
  /\ UNCHANGED store

(***************************************************************************)
(* suggest-prompt.                                                         *)
(***************************************************************************)
FullSuggestion ==
  [refinedQuery |-> "rq",
   suggestedElements |-> [specificity |-> <<"s">>, researchType |-> <<"m">>,
                          practicalApplication |-> <<"p">>],
   questionVariations |-> <<[question |-> "qn", explanation |-> "ex"]>>,
   relatedConcepts |-> <<"c">>]

\* texts the suggestion call can return as first-choice content
JsonTexts ==
  {"{refinedQuery,suggestedElements,questionVariations,relatedConcepts}",
   "{refinedQuery}", "{}", "null", "Here is the JSON you asked for"}

\* JSON.parse
ParseJSON(text) ==
  CASE text = "{refinedQuery,suggestedElements,questionVariations,relatedConcepts}" ->
         [ok |-> TRUE, value |-> FullSuggestion]
    [] text = "{refinedQuery}" -> [ok |-> TRUE, value |-> [refinedQuery |-> "rq"]]
    [] text = "{}" -> [ok |-> TRUE, value |-> <<>>]
    [] text = "null" -> [ok |-> TRUE, value |-> JsonNull]
    [] OTHER -> [ok |-> FALSE, value |-> JsonNull]

\* variant: a text that does not parse is replaced by the empty object
SuggestReturnSuggestPrompt_recovering(q, o) ==
  CASE o.kind = "throw" -> ForwardError(q, ThrownMessage)
    [] o.kind = "notok" -> ForwardError(q, "Failed to generate prompt suggestion")
    [] o.kind = "nochoices" -> ForwardError(q, "Invalid suggestion response")
    [] o.kind = "ok" ->
         LET parsed == ParseJSON(IF Truthy(o.content) THEN o.content ELSE "{}")
         IN CallCompletion([q EXCEPT !.suggestions = IF parsed.ok THEN parsed.value ELSE <<>>],
                           "tagWait")

\* the suggestion call answers
SuggestReturnSuggestPrompt(q, o) ==
  CASE o.kind = "throw" -> ForwardError(q, ThrownMessage)
    [] o.kind = "notok" -> ForwardError(q, "Failed to generate prompt suggestion")
    [] o.kind = "nochoices" -> ForwardError(q, "Invalid suggestion response")
    [] o.kind = "ok" ->
         LET parsed == ParseJSON(IF Truthy(o.content) THEN o.content ELSE "{}")
         IN IF ~parsed.ok
            THEN ForwardError(q, "Unexpected token in JSON")
            ELSE CallCompletion([q EXCEPT !.suggestions = parsed.value], "tagWait")

SuggestReturn(r) ==
  /\ reqs[r].pc = "suggestWait"
  /\ \E o \in CompletionOutcomes({Absent} \cup JsonTexts) :
       Update(r, SuggestReturnSuggestPrompt([reqs[r] EXCEPT !.outSynth = o], o))
  /\ UNCHANGED store

\* texts the tag call can return: sequences of characters
TagTexts == {<<>>, <<"x">>, <<"x", ",", " ", "y">>}

NoText == <<"<absent>">>

\* getResearchTags
GetResearchTags(o) ==
  CASE o.kind \in {"throw", "notok", "nochoices"} -> <<>>
    [] o.kind = "ok" ->
         IF o.content = NoText THEN <<>>
         ELSE LET parts == SplitOn(o.content, ",")
              IN [i \in 1..Len(parts) |-> Trim(parts[i])]

WithTags(s, tags) ==
  [k \in DOMAIN s \cup {"researchTags"} |-> IF k = "researchTags" THEN tags ELSE s[k]]

\* variant: getResearchTags does not catch, a failed tag call fails the request
TagReturnSuggestPrompt_tagFailureFatal(q, o) ==
  IF q.suggestions = JsonNull
  THEN ForwardError(q, "Cannot set properties of null")
  ELSE IF o.kind \in {"throw", "notok", "nochoices"}
  THEN ForwardError(q, "Failed to generate tags")
  ELSE Respond(q, 200, WithTags(q.suggestions, GetResearchTags(o)))

\* the tag call answers: suggestions.researchTags = researchTags; res.json
TagReturnSuggestPrompt(q, o) ==
  IF q.suggestions = JsonNull
  THEN ForwardError(q, "Cannot set properties of null")
  ELSE Respond(q, 200, WithTags(q.suggestions, GetResearchTags(o)))

TagReturn(r) ==
  /\ reqs[r].pc = "tagWait"
  /\ \E o \in CompletionOutcomes({NoText} \cup TagTexts) :
       Update(r, TagReturnSuggestPrompt([reqs[r] EXCEPT !.outTag = o], o))
  /\ UNCHANGED store

(***************************************************************************)
(* Specification.                                                          *)
(***************************************************************************)
Next ==
  \E r \in Reqs :
    \/ Receive(r)
    \/ IdentityReturn(r)
    \/ SearchReturn(r)
    \/ EnrichReturn(r)
    \/ Join(r)
    \/ SynthReturn(r)
    \/ PersistReturn(r)
    \/ SaveReturn(r)
    \/ AnalyzeReturn(r)
    \/ SuggestReturn(r)
    \/ TagReturn(r)

Spec == Init /\ [][Next]_vars

(***************************************************************************)
(* Vocabulary of the properties.                                           *)
(***************************************************************************)
BatchRoutes == {"search-papers", "generate-report"}

FailedKinds == {"throw", "notok", "nochoices"}

Done(q) == q.pc = "done" /\ Len(q.resp) = 1

Status(q) == q.resp[1].status

Body(q) == q.resp[1].body

IsErrorBody(resp) == resp.ctype = "json" /\ DOMAIN resp.body = {"error"}

Filled(q, i) == q.results[i] # NoSlot

\* the text in slot i: the summary, or the analysis of the PaperAnalysis
SlotText(q, i) ==
  IF q.route = "search-papers" THEN q.results[i].val ELSE q.results[i].val.analysis

FailedSlot(q, i) == Filled(q, i) /\ q.results[i].kind \in FailedKinds

\* the handler ran: the middleware got a user and called next()
HandlerRan(q) == q.outIdentity.kind = "user"

NoOutboundCalls(q) == q.nSearch = 0 /\ q.nCompletion = 0 /\ q.nInsert = 0

SummaryPlaceholders ==
  {"Summary failed due to API error", "Summary failed: No valid response",
   "Summary generation failed"}

AnalysisPlaceholders ==
  {"Analysis failed due to API error", "Analysis failed: No valid response from AI",
   "Analysis failed due to server error"}

(***************************************************************************)
(* C1: in every enrichment batch the result array has one slot per input   *)
(* paper and the value in slot i comes from the callback invoked with      *)
(* paper i, whatever the outcomes of the calls and the order in which they *)
(* settle; once the batch is joined every slot is filled, and the success  *)
(* response carries the values in that order.                              *)
(***************************************************************************)
C1_BatchOrderPreserved ==
  \A r \in Reqs :
    LET q == reqs[r]
        n == Len(q.papers)
    IN /\ Len(q.results) = n
       /\ Len(q.calls) = n
       /\ \A i \in 1..n :
            /\ Filled(q, i) <=> q.calls[i].st = "settled"
            /\ Filled(q, i) =>
                 /\ q.results[i].src = q.papers[i]
                 /\ q.route = "generate-report" => q.results[i].val.paper = q.papers[i]
       /\ q.nSynth > 0 => \A i \in 1..n : Filled(q, i)
       /\ (Done(q) /\ Status(q) = 200 /\ q.route \in BatchRoutes) =>
            /\ Len(Body(q).papers) = n
            /\ q.route = "search-papers" =>
                 /\ Body(q).papers = q.papers
                 /\ Len(Body(q).summaries) = n
                 /\ \A i \in 1..n : Body(q).summaries[i] = q.results[i].val
            /\ q.route = "generate-report" =>
                 \A i \in 1..n : Body(q).papers[i] = q.results[i].val

\* a search-papers request answered with success whose second call settled
\* before its first and whose first call failed
C1_Witness ==
  \E r \in Reqs :
    LET q == reqs[r]
    IN /\ Done(q) /\ Status(q) = 200 /\ q.route = "search-papers"
       /\ Len(q.papers) >= 2
       /\ q.order[1] > q.order[2]
       /\ q.results[1].kind = "throw"
       /\ q.results[2].kind = "ok"

(***************************************************************************)
(* C2: when the search of search-papers returns zero papers, the request   *)
(* is answered with exactly {papers: [], summaries: [],                    *)
(* consolidatedSummary: ''} and has issued no completion call.             *)
(***************************************************************************)
ZeroPapersFound(q) ==
  q.route = "search-papers" /\ q.outSearch.kind = "ok" /\ q.outSearch.papers = <<>>

C2_EmptySearchShortCircuits ==
  \A r \in Reqs :
    LET q == reqs[r]
    IN ZeroPapersFound(q) =>
         /\ q.pc = "done"
         /\ q.resp = <<JsonResponse(200, [papers |-> <<>>, summaries |-> <<>>,
                                          consolidatedSummary |-> ""])>>
         /\ q.nCompletion = 0

C2_Witness == \E r \in Reqs : ZeroPapersFound(reqs[r]) /\ Done(reqs[r])

(***************************************************************************)
(* C3: a search-papers or generate-report request that reaches its handler *)
(* with no query in its body is answered with status 400 and               *)
(* {error: 'Query is required'}, and has issued no search, completion or   *)
(* persistence call.                                                       *)
(***************************************************************************)
MissingQuery(q) == q.route \in BatchRoutes /\ HandlerRan(q) /\ q.body.query = Absent

C3_MissingQueryIs400 ==
  \A r \in Reqs :
    LET q == reqs[r]
    IN MissingQuery(q) =>
         /\ q.pc = "done"
         /\ q.resp = <<JsonResponse(400, [error |-> "Query is required"])>>
         /\ NoOutboundCalls(q)

C3_Witness ==
  \E r \in Reqs :
    MissingQuery(reqs[r]) /\ reqs[r].route = "generate-report" /\ Done(reqs[r])

(***************************************************************************)
(* C4: failed per-paper calls never make the request fail.  In every      *)
(* batch, whichever of its calls fail, every paper has its call, no        *)
(* response is sent while the batch is pending, the synthesis call can be  *)
(* issued as soon as all calls have settled and is issued before any       *)
(* response, every failed paper has a placeholder in its slot, and the     *)
(* request is answered with success whenever the synthesis (and the insert *)
(* of generate-report) succeeded.                                          *)
(***************************************************************************)
BatchIssued(q) ==
  /\ q.route \in BatchRoutes
  /\ q.outSearch.kind = "ok"
  /\ q.route = "search-papers" => q.outSearch.papers # <<>>

C4_EnrichmentFailuresTolerated ==
  \A r \in Reqs :
    LET q == reqs[r]
    IN BatchIssued(q) =>
         /\ q.papers = q.outSearch.papers
         /\ Len(q.calls) = Len(q.papers)
         /\ \A i \in 1..Len(q.calls) : q.calls[i].paper = q.papers[i]
         /\ q.pc = "enrichWait" => q.resp = <<>> /\ (AllSettled(q) => ENABLED Join(r))
         /\ q.pc # "enrichWait" => AllSettled(q) /\ q.nSynth = 1
         /\ q.resp # <<>> => q.outSynth # NoOutcome
         /\ \A i \in 1..Len(q.results) :
              FailedSlot(q, i) =>
                SlotText(q, i) \in (IF q.route = "search-papers"
                                    THEN SummaryPlaceholders ELSE AnalysisPlaceholders)
         /\ (Done(q) /\ q.outSynth.kind = "ok" /\ q.route = "search-papers") => Status(q) = 200
         /\ (Done(q) /\ q.outInsert.kind = "ok") => Status(q) = 200

\* a generate-report request answered with success all of whose calls failed
C4_Witness ==
  \E r \in Reqs :
    LET q == reqs[r]
    IN /\ Done(q) /\ Status(q) = 200 /\ q.route = "generate-report"
       /\ Len(q.papers) >= 2
       /\ \A i \in 1..Len(q.results) : FailedSlot(q, i)

(***************************************************************************)
(* C5 as stated: the placeholder of a failed paper is one fixed string per *)
(* mode, whatever the kind of failure: "Summary generation failed" in      *)
(* search-papers, "Analysis failed due to server error" in generate-report.*)
(***************************************************************************)
C5_SinglePlaceholderPerMode ==
  \A r \in Reqs :
    LET q == reqs[r]
    IN q.route \in BatchRoutes =>
         \A i \in 1..Len(q.results) :
           FailedSlot(q, i) =>
             SlotText(q, i) = (IF q.route = "search-papers"
                               THEN "Summary generation failed"
                               ELSE "Analysis failed due to server error")

PlaceholderFor(route, kind) ==
  IF route = "search-papers"
  THEN CASE kind = "notok" -> "Summary failed due to API error"
         [] kind = "nochoices" -> "Summary failed: No valid response"
         [] kind = "throw" -> "Summary generation failed"
  ELSE CASE kind = "notok" -> "Analysis failed due to API error"
         [] kind = "nochoices" -> "Analysis failed: No valid response from AI"
         [] kind = "throw" -> "Analysis failed due to server error"

(***************************************************************************)
(* C5 amended: the placeholder of a failed paper is a fixed string         *)
(* determined by the mode and the kind of failure (non-success status,     *)
(* missing or empty choices, thrown error).                                *)
(***************************************************************************)
C5_PlaceholderPerFailureKind ==
  \A r \in Reqs :
    LET q == reqs[r]
    IN q.route \in BatchRoutes =>
         \A i \in 1..Len(q.results) :
           FailedSlot(q, i) => SlotText(q, i) = PlaceholderFor(q.route, q.results[i].kind)

\* a summary batch with a non-success status and a body without choices
C5_Witness ==
  \E r \in Reqs :
    LET q == reqs[r]
    IN /\ q.route = "search-papers" /\ Len(q.results) >= 2
       /\ Filled(q, 1) /\ q.results[1].kind = "notok"
       /\ Filled(q, 2) /\ q.results[2].kind = "nochoices"

(***************************************************************************)
(* C6: a synthesis call that answers with a non-success status or without  *)
(* choices is fatal: the request is answered once, with status 500 and a   *)
(* body {error: message}, and generate-report has issued no insert.        *)
(***************************************************************************)
SynthesisFailed(q) == q.route \in BatchRoutes /\ q.outSynth.kind \in {"notok", "nochoices"}

C6_SynthesisFailureIsFatal ==
  \A r \in Reqs :
    LET q == reqs[r]
    IN SynthesisFailed(q) =>
         /\ Done(q)
         /\ Status(q) = 500
         /\ IsErrorBody(q.resp[1])
         /\ Body(q).error =
              (IF q.route = "generate-report" THEN "Failed to generate report content"
               ELSE IF q.outSynth.kind = "notok" THEN "Failed to generate consolidated summary"
               ELSE "Invalid consolidated summary response")
         /\ q.nInsert = 0
         /\ q.insertArg = NoRecord

C6_Witness ==
  \E r \in Reqs :
    LET q == reqs[r]
    IN SynthesisFailed(q) /\ q.route = "search-papers" /\ q.outSynth.kind = "nochoices"
       /\ Len(q.papers) >= 1 /\ Done(q)

(***************************************************************************)
(* C7: on each protected route a request whose Authorization header is     *)
(* absent or does not start with 'Bearer ', or whose token the identity    *)
(* service rejects, ends with status 401 and issues no search, completion  *)
(* or persistence call; the handler runs only after the identity service   *)
(* returned a user.                                                        *)
(***************************************************************************)
Unauthenticated(q) ==
  q.pc # "idle" /\ (~StartsWithBearer(q.header) \/ q.outIdentity.kind \in {"error", "throw"})

C7_UnauthenticatedIs401 ==
  \A r \in Reqs :
    LET q == reqs[r]
    IN /\ Unauthenticated(q) =>
            /\ NoOutboundCalls(q)
            /\ q.pc # "authWait" => Done(q) /\ Status(q) = 401
       /\ (~NoOutboundCalls(q) \/ (Done(q) /\ Status(q) # 401)) => HandlerRan(q)

(***************************************************************************)
(* C8: a generate-report request answered with success has issued exactly  *)
(* one insert, and the record returned as savedReport is the inserted one, *)
(* whose content is the text returned as report; a request answered with   *)
(* an error has issued at most one insert.                                 *)
(***************************************************************************)
C8_OneInsertEchoed ==
  \A r \in Reqs :
    LET q == reqs[r]
    IN (q.route = "generate-report" /\ Done(q)) =>
         /\ q.nInsert <= 1
         /\ Status(q) = 200 =>
              /\ q.nInsert = 1
              /\ Body(q).savedReport.content = Body(q).report
              /\ q.insertArg.content = Body(q).report
              /\ \A k \in DOMAIN q.insertArg : Body(q).savedReport[k] = q.insertArg[k]
              /\ \E j \in 1..Len(store) : store[j] = Body(q).savedReport

C8_Witness ==
  \E r \in Reqs :
    LET q == reqs[r]
    IN q.route = "generate-report" /\ Done(q) /\ Status(q) = 200
       /\ Body(q).report = "t2" /\ Len(q.papers) >= 1

(***************************************************************************)
(* C9: generate-report issues its insert only after the report call        *)
(* returned a non-empty first-choice text, and inserts that text; when the *)
(* search fails, the report call fails or the text is missing, the request *)
(* ends with an error and no insert.                                       *)
(***************************************************************************)
ReportTextMissing(q) ==
  \/ q.outSearch.kind \in {"throw", "notok"}
  \/ q.outSynth.kind \in FailedKinds
  \/ q.outSynth.kind = "ok" /\ ~Truthy(q.outSynth.content)

C9_InsertOnlyAfterFullText ==
  \A r \in Reqs :
    LET q == reqs[r]
    IN q.route = "generate-report" =>
         /\ q.nInsert > 0 =>
              /\ q.outSynth.kind = "ok"
              /\ Truthy(q.outSynth.content)
              /\ q.insertArg.content = q.outSynth.content
         /\ ReportTextMissing(q) =>
              /\ Done(q)
              /\ Status(q) = 500
              /\ IsErrorBody(q.resp[1])
              /\ q.nInsert = 0
              /\ q.insertArg = NoRecord

\* the insert is in flight with the text the report call returned
C9_Witness ==
  \E r \in Reqs :
    LET q == reqs[r]
    IN q.route = "generate-report" /\ q.pc = "persistWait" /\ q.nInsert = 1
       /\ q.insertArg.content = "t1"

(***************************************************************************)
(* C10: every failure on every route (validation, authentication, search,  *)
(* completion, malformed completion body, malformed suggestion JSON,       *)
(* persistence) yields a JSON body {error: ...} with a non-2xx status, and *)
(* no response carries an error field together with other fields.          *)
(***************************************************************************)
Is2xx(status) == status \in 200..299

RequestFailed(q) ==
  \/ q.outIdentity.kind \in {"error", "throw"}
  \/ q.outSearch.kind \in {"throw", "notok"}
  \/ q.outSynth.kind \in FailedKinds
  \/ q.route = "suggest-prompt" /\ q.outSynth.kind = "ok"
       /\ ~ParseJSON(IF Truthy(q.outSynth.content) THEN q.outSynth.content ELSE "{}").ok
  \/ q.outInsert.kind \in {"throw", "error"}
  \/ q.route \in BatchRoutes /\ HandlerRan(q) /\ ~Truthy(q.body.query)
  \/ q.route = "analyze-paper" /\ HandlerRan(q) /\ ~Truthy(q.body.abstract)

C10_FailuresAreJsonErrors ==
  \A r \in Reqs :
    LET q == reqs[r]
    IN /\ RequestFailed(q) => Done(q) /\ ~Is2xx(Status(q)) /\ IsErrorBody(q.resp[1])
       /\ \A k \in 1..Len(q.resp) :
            /\ ~Is2xx(q.resp[k].status) => IsErrorBody(q.resp[k])
            /\ "error" \in DOMAIN q.resp[k].body => IsErrorBody(q.resp[k]) /\ ~Is2xx(q.resp[k].status)

(***************************************************************************)
(* C11: a completion body with a success status but without a usable       *)
(* choices list is a failure of the calling stage.  In a per-paper batch   *)
(* the paper gets the no-valid-response placeholder, no response is sent   *)
(* for it and the synthesis call is still issued; in analyze-paper the     *)
(* request is answered with status 500 and the message 'Invalid analysis   *)
(* response: No valid choices in response', without a summary.             *)
(***************************************************************************)
NoChoicesSlot(q, i) == Filled(q, i) /\ q.results[i].kind = "nochoices"

AnalyzeNoChoices(q) == q.route = "analyze-paper" /\ q.outSynth.kind = "nochoices"

C11_MissingChoicesFailsStage ==
  \A r \in Reqs :
    LET q == reqs[r]
    IN /\ q.route \in BatchRoutes =>
            \A i \in 1..Len(q.results) :
              NoChoicesSlot(q, i) =>
                /\ SlotText(q, i) = (IF q.route = "search-papers"
                                     THEN "Summary failed: No valid response"
                                     ELSE "Analysis failed: No valid response from AI")
                /\ q.pc = "enrichWait" => q.resp = <<>>
                /\ q.pc # "enrichWait" => q.nSynth = 1
                /\ q.resp # <<>> => q.outSynth # NoOutcome
       /\ AnalyzeNoChoices(q) =>
            /\ Done(q)
            /\ Status(q) = 500
            /\ IsErrorBody(q.resp[1])
            /\ Body(q).error = "Invalid analysis response: No valid choices in response"
            /\ "summary" \notin DOMAIN Body(q)

C11_Witness == \E r \in Reqs : AnalyzeNoChoices(reqs[r]) /\ Done(reqs[r])

(***************************************************************************)
(* C12: in suggest-prompt, when the suggestion text parsed to a JSON       *)
(* object and the tag call fails (thrown error, non-success status,        *)
(* missing or empty choices, absent content), the request is answered with *)
(* success, researchTags is the empty sequence and every other field of    *)
(* the response is the field of the parsed suggestion object.              *)
(***************************************************************************)
TagCallFailed(q) ==
  /\ q.route = "suggest-prompt"
  /\ \/ q.outTag.kind \in FailedKinds
     \/ q.outTag.kind = "ok" /\ q.outTag.content = NoText

ParsedSuggestion(q) ==
  ParseJSON(IF Truthy(q.outSynth.content) THEN q.outSynth.content ELSE "{}").value

SuggestionKeys ==
  {"refinedQuery", "suggestedElements", "questionVariations", "relatedConcepts", "researchTags"}

MalformedSuggestion(q) ==
  /\ q.route = "suggest-prompt"
  /\ q.outSynth.kind = "ok"
  /\ Truthy(q.outSynth.content)
  /\ ~ParseJSON(q.outSynth.content).ok

C13_MalformedSuggestionFailsRequest ==
  \A r \in Reqs :
    LET q == reqs[r]
    IN MalformedSuggestion(q) =>
         /\ Done(q)
         /\ ~Is2xx(Status(q))
         /\ DOMAIN Body(q) \cap SuggestionKeys = {}
         /\ q.nCompletion = 1
         /\ q.outTag = NoOutcome

C13_Witness == \E r \in Reqs : MalformedSuggestion(reqs[r]) /\ Done(reqs[r])

(***************************************************************************)
(* C14: every success response of suggest-prompt contains the five         *)
(* PromptSuggestion fields (refinedQuery, suggestedElements with its three *)
(* sequences, questionVariations, relatedConcepts, researchTags).          *)
(***************************************************************************)
C14_AllSuggestionFieldsPresent ==
  \A r \in Reqs :
    LET q == reqs[r]
    IN (q.route = "suggest-prompt" /\ Done(q) /\ Status(q) = 200) =>
         /\ SuggestionKeys \subseteq DOMAIN Body(q)
         /\ DOMAIN Body(q).suggestedElements =
              {"specificity", "researchType", "practicalApplication"}

(***************************************************************************)
(* C15: in generate-report a persistence failure (insert error, no record  *)
(* returned, thrown insert, missing user id) and a report-generation       *)
(* failure are both answered with status 500 and {error}, with different   *)
(* messages: a persistence failure is never reported as 'Failed to         *)
(* generate report content' and a generation failure is always reported    *)
(* with that message, never with a message of the save stage.              *)
(***************************************************************************)
SaveStageMessages ==
  {"No authenticated user found", "Failed to save report: duplicate key",
   "No report record returned after save", ThrownMessage,
   "Failed to save report to database"}

ReportGenerated(q) ==
  q.route = "generate-report" /\ q.outSynth.kind = "ok" /\ Truthy(q.outSynth.content)

PersistenceFailed(q) ==
  ReportGenerated(q) /\ (~HasUserId(q) \/ q.outInsert.kind \in {"error", "nodata", "throw"})

GenerationFailed(q) ==
  /\ q.route = "generate-report"
  /\ \/ q.outSynth.kind \in FailedKinds
     \/ q.outSynth.kind = "ok" /\ ~Truthy(q.outSynth.content)

C15_SaveAndGenerationFailuresDistinct ==
  \A r \in Reqs :
    LET q == reqs[r]
    IN /\ PersistenceFailed(q) =>
            /\ Done(q) /\ Status(q) = 500 /\ IsErrorBody(q.resp[1])
            /\ Body(q).error \in SaveStageMessages
            /\ Body(q).error # "Failed to generate report content"
            /\ Body(q).error =
                 (IF ~HasUserId(q) THEN "No authenticated user found"
                  ELSE CASE q.outInsert.kind = "error" -> "Failed to save report: duplicate key"
                         [] q.outInsert.kind = "nodata" -> "No report record returned after save"
                         [] q.outInsert.kind = "throw" -> ThrownMessage)
       /\ GenerationFailed(q) =>
            /\ Done(q) /\ Status(q) = 500 /\ IsErrorBody(q.resp[1])
            /\ Body(q).error = "Failed to generate report content"
            /\ Body(q).error \notin SaveStageMessages

\* an insert error in a request whose report was generated
C15_Witness ==
  \E r \in Reqs :
    LET q == reqs[r]
    IN PersistenceFailed(q) /\ HasUserId(q) /\ q.outInsert.kind = "error" /\ Done(q)

(***************************************************************************)
(* C16: in search-papers and generate-report a non-success status of the   *)
(* search API ends the request with status 500 and an error message that   *)
(* carries the upstream status text, and no completion or persistence call *)
(* is issued.                                                              *)
(***************************************************************************)
\* the error messages that contain the status text st
MessagesCarrying(st) ==
  CASE st = "Bad Gateway" -> {"ArXiv API error: Bad Gateway"}
    [] st = "Too Many Requests" -> {"ArXiv API error: Too Many Requests"}

SearchNotOk(q) == q.route \in BatchRoutes /\ q.outSearch.kind = "notok"

C16_SearchFailureCarriesReason ==
  \A r \in Reqs :
    LET q == reqs[r]
    IN SearchNotOk(q) =>
         /\ Done(q) /\ Status(q) = 500 /\ IsErrorBody(q.resp[1])
         /\ Body(q).error \in MessagesCarrying(q.outSearch.statusText)
         /\ q.nCompletion = 0
         /\ q.nInsert = 0

(***************************************************************************)
(* C17: no outbound call is retried.  In one request the identity service, *)
(* the search API and the record store are called at most once, every      *)
(* paper has exactly one enrichment call, the synthesis call is issued at  *)
(* most once, the completion calls of a batch request are its N enrichment *)
(* calls and its synthesis call (at most N+1), and a request whose search  *)
(* or synthesis call failed has ended with that single call.               *)
(***************************************************************************)
C17_SingleAttempt ==
  \A r \in Reqs :
    LET q == reqs[r]
        n == Len(q.papers)
    IN /\ q.nIdentity <= 1 /\ q.nSearch <= 1 /\ q.nSynth <= 1 /\ q.nInsert <= 1
       /\ Len(q.calls) = n
       /\ \A i, j \in 1..n : q.calls[i].paper = q.papers[i] /\ (i # j => q.papers[i] # q.papers[j])
       /\ q.route \in BatchRoutes =>
            /\ q.nCompletion = n + q.nSynth
            /\ q.nCompletion <= n + 1
            /\ q.outSearch.kind \in {"throw", "notok"} => Done(q) /\ q.nSearch = 1
            /\ q.outSynth.kind \in FailedKinds => Done(q) /\ q.nSynth = 1
            /\ \A i \in 1..n : FailedSlot(q, i) => q.calls[i].st = "settled"
       /\ q.route \in {"analyze-paper", "save-search"} => q.nCompletion + q.nInsert <= 1
       /\ q.route = "suggest-prompt" => q.nCompletion <= 2

\* a search-papers request over two papers whose calls all failed: 3 calls
C17_Witness ==
  \E r \in Reqs :
    LET q == reqs[r]
    IN /\ q.route = "search-papers" /\ Done(q) /\ Len(q.papers) = 2
       /\ q.results[1].kind = "throw" /\ q.results[2].kind = "notok"
       /\ q.outSynth.kind = "throw"
       /\ q.nCompletion = 3

(***************************************************************************)
(* C18: an analyze-paper request that reaches its handler without an       *)
(* abstract is answered with status 400 and has issued no completion call; *)
(* with an abstract it issues exactly one completion call and is answered  *)
(* with {summary} exactly when that call returned a non-empty first-choice *)
(* text, and with status 500 and {error} otherwise.                        *)
(***************************************************************************)
AnalyzeRan(q) == q.route = "analyze-paper" /\ HandlerRan(q)

C18_AnalyzePaperContract ==
  \A r \in Reqs :
    LET q == reqs[r]
    IN AnalyzeRan(q) =>
         /\ ~Truthy(q.body.abstract) =>
              /\ q.resp = <<JsonResponse(400, [error |-> "Abstract is required"])>>
              /\ q.pc = "done"
              /\ q.nCompletion = 0
         /\ Truthy(q.body.abstract) =>
              /\ q.nCompletion = 1
              /\ q.pc \in {"analyzeWait", "done"}
              /\ q.pc = "done" =>
                   /\ Len(q.resp) = 1
                   /\ IF q.outSynth.kind = "ok" /\ Truthy(q.outSynth.content)
                      THEN q.resp[1] = JsonResponse(200, [summary |-> q.outSynth.content])
                      ELSE Status(q) = 500 /\ IsErrorBody(q.resp[1])
         /\ q.nSearch = 0 /\ q.nInsert = 0

\* the call returned a first choice without text
C18_Witness ==
  \E r \in Reqs :
    LET q == reqs[r]
    IN AnalyzeRan(q) /\ Done(q) /\ q.outSynth.kind = "ok" /\ q.outSynth.content = Absent

(***************************************************************************)
(* C20: join-all.  In search-papers and generate-report the synthesis call *)
(* is issued only when every per-paper call of the request has settled and *)
(* filled its slot; a response to a request with a batch is sent only      *)
(* after the synthesis call answered, and in generate-report, once the     *)
(* insert is issued, only after the insert answered.                       *)
(***************************************************************************)
C20_JoinAll ==
  \A r \in DOMAIN reqs :
    LET q == reqs[r]
        n == Len(q.papers)
    IN q.route \in BatchRoutes =>
         /\ q.nSynth > 0 =>
              /\ AllSettled(q)
              /\ Len(q.order) = n
              /\ \A i \in 1..n : Filled(q, i)
         /\ (BatchIssued(q) /\ q.resp # <<>>) => q.nSynth = 1 /\ q.outSynth # NoOutcome
         /\ (q.nInsert > 0 /\ q.resp # <<>>) => q.outInsert # NoOutcome
         /\ q.pc = "persistWait" => q.resp = <<>> /\ q.outSynth.kind = "ok"
         /\ (q.route = "generate-report" /\ Done(q) /\ Status(q) = 200) =>
              q.outInsert.kind = "ok"

\* the synthesis call of a two-paper batch is in flight
C20_Witness ==
  \E r \in DOMAIN reqs :
    LET q == reqs[r]
    IN q.route = "generate-report" /\ q.pc = "synthWait" /\ Len(q.papers) = 2
       /\ q.order = <<2, 1>>

(***************************************************************************)
(* Progress.  Every outbound call settles, with success or with failure,   *)
(* and the event loop then resumes the handler that awaits it: a request   *)
(* that awaits a call does not wait forever.  Nothing obliges a request to *)
(* arrive.                                                                 *)
(***************************************************************************)
Resume(r) ==
  \/ IdentityReturn(r)
  \/ SearchReturn(r)
  \/ EnrichReturn(r)
  \/ Join(r)
  \/ SynthReturn(r)
  \/ PersistReturn(r)
  \/ SaveReturn(r)
  \/ AnalyzeReturn(r)
  \/ SuggestReturn(r)
  \/ TagReturn(r)

Fairness == \A r \in Reqs : WF_vars(Resume(r))

SpecLive == Init /\ [][Next]_vars /\ Fairness

(***************************************************************************)
(* Two requests in flight at once.  Each handler invocation has its own    *)
(* locals, so the server is the same actions over two slots; the steps of  *)
(* the two requests interleave at every suspension point.  The requests    *)
(* of this specification are authenticated and well-formed, find at most   *)
(* one paper, and their calls answer with the outcomes of ConcEnv.         *)
(***************************************************************************)
ConcReqs == {1, 2}

InitConc ==
  /\ reqs = [r \in ConcReqs |-> IdleRequest]
  /\ store = <<>>

ConcHeader == <<"Bearer", " ", "a">>

ConcPaperLists == {<<>>, <<1>>, <<2, 1>>}

ConcBodies ==
  {[query |-> "q"], [abstract |-> "q"], [initialQuery |-> "q"],
   [query |-> "q", consolidatedSummary |-> "s", papers |-> <<>>]}

\* the inputs and outcomes the requests of the concurrent runs are given
ConcEnvOf(q) ==
  /\ q.pc # "idle" =>
       /\ q.header = ConcHeader
       /\ q.body \in ConcBodies
  /\ q.outIdentity.kind \in {"none", "user"}
  /\ q.outIdentity.kind = "user" => q.outIdentity.user.id = "u1"
  /\ q.outSearch.kind = "notok" => q.outSearch.statusText = "Bad Gateway"
  /\ q.outSearch.kind = "ok" => q.outSearch.papers \in ConcPaperLists
  /\ \A i \in 1..Len(q.calls) :
       q.calls[i].out \in {NoOutcome, [kind |-> "throw"], [kind |-> "ok", content |-> "t1"]}
  /\ q.outSynth.kind = "ok" => q.outSynth.content \notin {"", "t2", "{refinedQuery}", "null"}
  /\ q.outTag.kind = "ok" => q.outTag.content \in {NoText, <<"x">>}
  /\ q.outInsert.kind # "nodata"

\* the requests are numbered in their order of arrival
ConcEnv ==
  /\ \A r \in DOMAIN reqs : ConcEnvOf(reqs[r])
  /\ \A r, s \in DOMAIN reqs : (r < s /\ reqs[s].pc # "idle") => reqs[r].pc # "idle"

NextConc ==
  \E r \in ConcReqs :
    \/ Receive(r) /\ ConcEnv'
    \/ IdentityReturn(r) /\ ConcEnv'
    \/ SearchReturn(r) /\ ConcEnv'
    \/ EnrichReturn(r) /\ ConcEnv'
    \/ Join(r)
    \/ SynthReturn(r) /\ ConcEnv'
    \/ PersistReturn(r) /\ ConcEnv'
    \/ SaveReturn(r) /\ ConcEnv'
    \/ AnalyzeReturn(r) /\ ConcEnv'
    \/ SuggestReturn(r) /\ ConcEnv'
    \/ TagReturn(r) /\ ConcEnv'

SpecConc == InitConc /\ [][NextConc]_vars

(***************************************************************************)
(* A request run alone: the middleware and the handler of q's route run    *)
(* from a fresh slot on q's input, every outbound call answering with the  *)
(* outcome recorded for q's own call.  Nothing else of q, and nothing of   *)
(* any other request, is read.                                             *)
(***************************************************************************)
SoloAuth(q) ==
  LET s == Middleware([IdleRequest EXCEPT !.route = q.route, !.header = q.header,
                                          !.body = q.body])
  IN IF s.pc = "authWait"
     THEN AfterIdentity([s EXCEPT !.outIdentity = q.outIdentity], q.outIdentity)
     ELSE s

SoloSearch(q, s) ==
  IF s.pc # "searchWait" THEN s
  ELSE IF s.route = "search-papers"
  THEN SearchReturnSearchPapers([s EXCEPT !.outSearch = q.outSearch], q.outSearch)
  ELSE SearchReturnGenerateReport([s EXCEPT !.outSearch = q.outSearch], q.outSearch)

RECURSIVE SoloEnrich(_, _, _)
SoloEnrich(q, s, i) ==
  IF s.pc # "enrichWait" THEN s
  ELSE IF i > Len(s.calls)
  THEN [CallCompletion(s, "synthWait") EXCEPT !.nSynth = @ + 1]
  ELSE SoloEnrich(q, SettleEnrichment(s, i, q.calls[i].out), i + 1)

SoloSynth(q, s) ==
  LET o == q.outSynth
      t == [s EXCEPT !.outSynth = o]
  IN CASE s.pc = "synthWait" /\ s.route = "search-papers" -> SynthReturnSearchPapers(t, o)
       [] s.pc = "synthWait" /\ s.route = "generate-report" -> SynthReturnGenerateReport(t, o)
       [] s.pc = "analyzeWait" -> AnalyzeReturnAnalyzePaper(t, o)
       [] s.pc = "suggestWait" -> SuggestReturnSuggestPrompt(t, o)
       [] OTHER -> s

SoloTag(q, s) ==
  IF s.pc # "tagWait" THEN s
  ELSE TagReturnSuggestPrompt([s EXCEPT !.outTag = q.outTag], q.outTag)

SoloInsert(q, s) ==
  LET t == InsertAnswered(s, q.outInsert, q.row)
  IN CASE s.pc = "persistWait" -> PersistReturnGenerateReport(t, q.outInsert, q.row)
       [] s.pc = "saveWait" -> SaveReturnSaveSearch(t, q.outInsert, q.row)
       [] OTHER -> s

SoloRun(q) ==
  SoloInsert(q, SoloTag(q, SoloSynth(q, SoloEnrich(q, SoloSearch(q, SoloAuth(q)), 1))))

(***************************************************************************)
(* C19: requests share no mutable state.  In every interleaving of two     *)
(* requests at their suspension points, a request that has been answered   *)
(* was answered exactly as its run alone is, on its own input and with the *)
(* outcomes of its own outbound calls; and the papers, enrichment calls    *)
(* and results a request holds are those of its own search and its own     *)
(* enrichment calls.                                                       *)
(***************************************************************************)
C19_AnsweredAsAlone ==
  \A r \in DOMAIN reqs :
    LET q == reqs[r]
    IN /\ Done(q) => SoloRun(q).resp = q.resp
       /\ q.papers # <<>> => q.outSearch.kind = "ok" /\ q.papers = q.outSearch.papers
       /\ \A i \in 1..Len(q.results) :
            Filled(q, i) => /\ q.results[i].src = q.papers[i]
                            /\ q.results[i].val = EnrichValue(q.route, q.papers[i], q.calls[i].out)

\* two generate-report requests over different papers, both answered with
\* their report: the one that arrived first inserted after the one that
\* arrived second, so the two were in flight together
C19_Witness ==
  /\ DOMAIN reqs = ConcReqs
  /\ \A r \in ConcReqs : reqs[r].route = "generate-report" /\ Done(reqs[r]) /\ Status(reqs[r]) = 200
  /\ reqs[1].papers # reqs[2].papers
  /\ reqs[1].row.id = 2
  /\ reqs[2].row.id = 1

(***************************************************************************)
(* C21: fan-out.  Once the search of a search-papers or generate-report    *)
(* request has returned its N papers, every one of the N enrichment calls  *)
(* has been issued, whatever the number of calls that have settled: each   *)
(* call is in flight or settled, none waits for a sibling, and the request *)
(* has issued N completion calls before any of them has answered.          *)
(***************************************************************************)
BatchStarted(q) ==
  /\ q.route \in BatchRoutes
  /\ q.outSearch.kind = "ok"
  /\ q.route = "search-papers" => Len(q.outSearch.papers) > 0

C21_FanOut ==
  \A r \in DOMAIN reqs :
    LET q == reqs[r]
        n == Len(q.outSearch.papers)
    IN BatchStarted(q) =>
         /\ Len(q.calls) = n
         /\ \A i \in 1..n :
              /\ q.calls[i].paper = q.outSearch.papers[i]
              /\ q.calls[i].st \in {"inflight", "settled"}
         /\ q.nCompletion >= n
         /\ q.nSynth = 0 => q.nCompletion = n

\* the calls of a batch of MaxPapers papers are all in flight at once
C21_Witness ==
  \E r \in DOMAIN reqs :
    LET q == reqs[r]
    IN /\ BatchStarted(q) /\ q.pc = "enrichWait"
       /\ Len(q.papers) = MaxPapers
       /\ \A i \in 1..Len(q.calls) : q.calls[i].st = "inflight"
       /\ q.nCompletion = MaxPapers

(***************************************************************************)
(* C22: the two authentication middlewares are equivalent.  On the header  *)
(* of every request that has arrived, authenticateToken and                *)
(* authenticateUser make the same decision to reject or to ask the         *)
(* identity service, pass it the same token, and after the same answer of  *)
(* the identity service both reject or both attach the same user.          *)
(***************************************************************************)
Arrived(q) ==
  [IdleRequest EXCEPT !.route = q.route, !.header = q.header, !.body = q.body]

\* the middleware's part of a request: what it answered, asked and attached
AuthView(s) ==
  [rejected |-> s.resp # <<>> /\ s.resp[1].status = 401,
   asked |-> s.nIdentity > 0,
   token |-> s.idToken,
   user |-> s.user]

\* the view after the identity service has answered a middleware that asked
AuthViewAfter(s, o) ==
  IF s.pc # "authWait" THEN AuthView(s)
  ELSE CASE o.kind = "throw" -> AuthView(Respond(s, 401, [error |-> "Authentication failed"]))
         [] o.kind = "error" -> AuthView(Respond(s, 401, [error |-> "Invalid token"]))
         [] o.kind = "user" -> AuthView([s EXCEPT !.user = o.user])

C22_MiddlewaresEquivalent ==
  \A r \in DOMAIN reqs :
    LET q == reqs[r]
        t == AuthenticateToken(Arrived(q))
        u == AuthenticateUser(Arrived(q))
    IN q.pc # "idle" =>
         /\ AuthView(t) = AuthView(u)
         /\ \A o \in IdentityOutcomes(t.idToken) \cup IdentityOutcomes(u.idToken) :
              AuthViewAfter(t, o) = AuthViewAfter(u, o)

(***************************************************************************)
(* C23: exactly one response.  On every route a request has sent at most   *)
(* one response, it has sent exactly one when its handling has ended, and  *)
(* none before; a request that has been answered issues no further call,   *)
(* so no later stage and no enclosing catch answers it again.              *)
(***************************************************************************)
WaitingPcs ==
  {"authWait", "searchWait", "enrichWait", "synthWait", "persistWait", "saveWait",
   "analyzeWait", "suggestWait", "tagWait"}

C23_ExactlyOneResponse ==
  \A r \in DOMAIN reqs :
    LET q == reqs[r]
    IN /\ Len(q.resp) <= 1
       /\ q.pc = "done" <=> Len(q.resp) = 1
       /\ q.pc \in {"idle"} \cup WaitingPcs => q.resp = <<>>
       /\ q.pc \in {"idle", "done"} \cup WaitingPcs

\* a generate-report request whose insert threw, answered once by the catch
\* of the save stage
C23_Witness ==
  \E r \in DOMAIN reqs :
    LET q == reqs[r]
    IN /\ q.route = "generate-report" /\ q.outInsert.kind = "throw"
       /\ q.pc = "done" /\ Len(q.resp) = 1
       /\ q.resp[1].body = [error |-> ThrownMessage]

(***************************************************************************)
(* C24: termination.  Provided every outbound call settles, every request  *)
(* that has arrived is eventually answered: it reaches the terminal state  *)
(* with its response sent, whatever the outcomes of its calls.             *)
(***************************************************************************)
C24_EveryRequestAnswered ==
  \A r \in Reqs : (reqs[r].pc # "idle") ~> (reqs[r].pc = "done" /\ Len(reqs[r].resp) = 1)

\* a generate-report request went through all its stages, with a thrown
\* enrichment call on the way, and was answered
C24_Witness ==
  \E r \in Reqs :
    LET q == reqs[r]
    IN /\ q.route = "generate-report" /\ q.pc = "done" /\ Len(q.resp) = 1
       /\ Len(q.papers) = MaxPapers
       /\ \E i \in 1..Len(q.calls) : q.calls[i].out.kind = "throw"
       /\ q.nSynth = 1 /\ q.nInsert = 1

(***************************************************************************)
(* C25: each route touches only its own collaborators.  search-papers,     *)
(* analyze-paper and suggest-prompt issue no insert and leave the record   *)
(* store as it was; save-search issues no search and no completion call;   *)
(* analyze-paper and suggest-prompt issue no search; a request issues at   *)
(* most one insert, and every record of the store is the one record a      *)
(* generate-report or save-search request asked to insert.                 *)
(***************************************************************************)
NonPersistingRoutes == {"search-papers", "analyze-paper", "suggest-prompt"}

PersistingRoutes == {"generate-report", "save-search"}

\* the requests whose insert may have reached the store
Inserters == {r \in DOMAIN reqs : reqs[r].outInsert.kind \in {"ok", "throw"}}

C25_OwnCollaboratorsOnly ==
  /\ \A r \in DOMAIN reqs :
       LET q == reqs[r]
       IN /\ q.route \in NonPersistingRoutes =>
               q.nInsert = 0 /\ q.insertArg = NoRecord /\ q.outInsert = NoOutcome
          /\ q.route = "save-search" => q.nSearch = 0 /\ q.nCompletion = 0
          /\ q.route \in {"analyze-paper", "suggest-prompt"} => q.nSearch = 0 /\ q.calls = <<>>
          /\ q.nInsert <= 1
          /\ q.outInsert # NoOutcome => q.nInsert = 1
  /\ Len(store) <= Cardinality(Inserters)
  /\ \A k \in 1..Len(store) :
       \E r \in Inserters :
         /\ reqs[r].route \in PersistingRoutes
         /\ store[k] = Row(reqs[r].insertArg, k)
  /\ (\A r \in DOMAIN reqs : reqs[r].route \in NonPersistingRoutes \cup {Absent}) => store = <<>>

\* a save-search request stored its one record and made no other call
C25_Witness ==
  \E r \in DOMAIN reqs :
    LET q == reqs[r]
    IN /\ q.route = "save-search" /\ Done(q) /\ Status(q) = 200
       /\ q.outInsert.kind = "ok"
       /\ store = <<q.row>>
       /\ q.nSearch = 0 /\ q.nCompletion = 0 /\ q.nInsert = 1

====
